---- MODULE Spec2Model ----
(***************************************************************************)
(* Model of src/routes/chat-completions/handler.ts: the request handler    *)
(* handleCompletion (rate limit, body parse, token count, approval,        *)
(* sanitization, max_tokens defaulting, dispatch, JSON return or SSE       *)
(* relay) and the pure function sanitizePayload (orphaned tool-result      *)
(* validator followed by the size-budget trimmer).                         *)
(*                                                                         *)
(* JavaScript values are modelled as follows.                              *)
(*   - an optional value (T | undefined) is a sequence of length 0 or 1;   *)
(*   - a message object is a record role/content/tool_calls/tool_call_id;  *)
(*   - msg.content is a record: isArray tells string from array; a string  *)
(*     is kept by its number of characters (chars), an array by its parts; *)
(*   - object identity matters (sanitizePayload assigns msg.content on the *)
(*     caller's message objects), so the validator works on references     *)
(*     (positions in payload.messages) into a heap of message objects.     *)
(***************************************************************************)
EXTENDS Integers, Sequences, FiniteSets, TLC

\* ------------------------------------------------------------------ bounds

\* Longest message history of an incoming payload.
MaxLen == 3

\* Longest backend event sequence of a streaming response.
MaxEvents == 3

\* ------------------------------------------------------------ JS values

Undefined == <<>>

Some(x) == <<x>>

\* JavaScript truthiness of a (string | undefined): undefined and "" are falsy.
Truthy(opt) == opt # Undefined /\ opt[1] # ""

RECURSIVE SumSeq(_)
SumSeq(s) == IF s = <<>> THEN 0 ELSE Head(s) + SumSeq(Tail(s))

\* ------------------------------------------------- JSON.stringify(...).length

\* A string of n plain characters serializes to n + 2 characters.
StrChars(n) == n + 2

\* "key":value
FieldChars(key, valueChars) == Len(key) + 3 + valueChars

\* {f1,f2,...}: braces, the fields, a comma between two fields.
ObjChars(fields) ==
    2 + SumSeq(fields) + (IF Len(fields) = 0 THEN 0 ELSE Len(fields) - 1)

\* [e1,e2,...]
ArrChars(elems) ==
    2 + SumSeq(elems) + (IF Len(elems) = 0 THEN 0 ELSE Len(elems) - 1)

PartChars(part) ==
    ObjChars(<<FieldChars("type", StrChars(Len(part.type)))>>
             \o (IF part.tool_use_id = Undefined THEN <<>>
                 ELSE <<FieldChars("tool_use_id",
                                   StrChars(Len(part.tool_use_id[1])))>>))

ContentChars(content) ==
    IF content.isArray
    THEN ArrChars([k \in 1..Len(content.parts) |-> PartChars(content.parts[k])])
    ELSE StrChars(content.chars)

ToolCallChars(id) == ObjChars(<<FieldChars("id", StrChars(Len(id)))>>)

MsgChars(msg) ==
    ObjChars(<<FieldChars("role", StrChars(Len(msg.role))),
               FieldChars("content", ContentChars(msg.content))>>
             \o (IF msg.tool_calls = Undefined THEN <<>>
                 ELSE <<FieldChars("tool_calls",
                          ArrChars([k \in 1..Len(msg.tool_calls[1]) |->
                                      ToolCallChars(msg.tool_calls[1][k])]))>>)
             \o (IF msg.tool_call_id = Undefined THEN <<>>
                 ELSE <<FieldChars("tool_call_id",
                                   StrChars(Len(msg.tool_call_id[1])))>>))

\* JSON.stringify(msgs).length for an array of message objects.
StringifyLength(msgs) == ArrChars([k \in 1..Len(msgs) |-> MsgChars(msgs[k])])

\* --------------------------------------------------------- sanitizePayload

MAX_CHARS == 480000

\* The message objects a sequence of references denotes.
Deref(refs, heap) == [k \in 1..Len(refs) |-> heap[refs[k]]]

\* TrackToolCallIds starting the set afresh at each assistant message that
\* carries tool_calls.
TrackToolCallIdsRescoped(msg, validToolCallIds) ==
    IF msg.role = "assistant" /\ msg.tool_calls # Undefined
    THEN {msg.tool_calls[1][k] : k \in 1..Len(msg.tool_calls[1])}
    ELSE validToolCallIds

\* Lines 87-91: the ids an assistant message's tool_calls add to the set.
TrackToolCallIds(msg, validToolCallIds) ==
    IF msg.role = "assistant" /\ msg.tool_calls # Undefined
    THEN validToolCallIds \cup {msg.tool_calls[1][k] : k \in 1..Len(msg.tool_calls[1])}
    ELSE validToolCallIds

\* IsOrphanedToolMessage with line 95's negation lost.
IsOrphanedInverted(msg, validToolCallIds) ==
    /\ msg.role = "tool"
    /\ Truthy(msg.tool_call_id)
    /\ msg.tool_call_id[1] \in validToolCallIds

\* IsOrphanedToolMessage taking a tool message without a tool_call_id for an
\* orphan as well.
IsOrphanedWithoutId(msg, validToolCallIds) ==
    /\ msg.role = "tool"
    /\ \/ ~ Truthy(msg.tool_call_id)
       \/ msg.tool_call_id[1] \notin validToolCallIds

\* Lines 94-99: a tool message with a truthy, unknown tool_call_id.
IsOrphanedToolMessage(msg, validToolCallIds) ==
    /\ msg.role = "tool"
    /\ Truthy(msg.tool_call_id)
    /\ msg.tool_call_id[1] \notin validToolCallIds

\* KeepPart keeping a tool_result part only when it names a declared id.
KeepPartDeclaredOnly(part, validToolCallIds) ==
    \/ part.type # "tool_result"
    \/ /\ Truthy(part.tool_use_id)
       /\ part.tool_use_id[1] \in validToolCallIds

\* Lines 103-111: the filter callback; FALSE removes the part.
KeepPart(part, validToolCallIds) ==
    ~ ( /\ part.type = "tool_result"
        /\ Truthy(part.tool_use_id)
        /\ part.tool_use_id[1] \notin validToolCallIds )

FilterContent(parts, validToolCallIds) ==
    LET Keep(part) == KeepPart(part, validToolCallIds)
    IN  SelectSeq(parts, Keep)

\* ValidatorLoop dropping a message for empty content only when the filter
\* removed a part.
RECURSIVE ValidatorLoopKeepsEmptyInput(_, _, _, _)
ValidatorLoopKeepsEmptyInput(i, validToolCallIds, cleaned, heap) ==
    IF i > Len(heap)
    THEN [validToolCallIds |-> validToolCallIds, cleaned |-> cleaned, heap |-> heap]
    ELSE LET msg   == heap[i]
             valid == TrackToolCallIds(msg, validToolCallIds)
         IN  IF IsOrphanedToolMessage(msg, valid)
             THEN ValidatorLoopKeepsEmptyInput(i + 1, valid, cleaned, heap)
             ELSE IF msg.content.isArray
             THEN LET filteredContent == FilterContent(msg.content.parts, valid)
                  IN  IF Len(filteredContent) = 0 /\ Len(msg.content.parts) > 0
                      THEN ValidatorLoopKeepsEmptyInput(i + 1, valid, cleaned, heap)
                      ELSE ValidatorLoopKeepsEmptyInput(i + 1, valid, Append(cleaned, i),
                             [heap EXCEPT ![i].content.parts = filteredContent])
             ELSE ValidatorLoopKeepsEmptyInput(i + 1, valid, Append(cleaned, i), heap)

\* Lines 85-120: the loop over the messages, from position i on. heap holds the
\* message objects (line 116 assigns the filtered content to the object itself),
\* cleaned the references pushed so far.
RECURSIVE ValidatorLoop(_, _, _, _)
ValidatorLoop(i, validToolCallIds, cleaned, heap) ==
    IF i > Len(heap)
    THEN [validToolCallIds |-> validToolCallIds, cleaned |-> cleaned, heap |-> heap]
    ELSE LET msg   == heap[i]
             valid == TrackToolCallIds(msg, validToolCallIds)
         IN  IF IsOrphanedToolMessage(msg, valid)
             THEN ValidatorLoop(i + 1, valid, cleaned, heap)
             ELSE IF msg.content.isArray
             THEN LET filteredContent == FilterContent(msg.content.parts, valid)
                  IN  IF Len(filteredContent) = 0
                      THEN ValidatorLoop(i + 1, valid, cleaned, heap)
                      ELSE ValidatorLoop(i + 1, valid, Append(cleaned, i),
                             [heap EXCEPT ![i].content.parts = filteredContent])
             ELSE ValidatorLoop(i + 1, valid, Append(cleaned, i), heap)

\* IsPinned without the developer role.
IsPinnedSystemOnly(msg) == msg.role = "system"

\* Lines 131-132.
IsPinned(msg) == msg.role = "system" \/ msg.role = "developer"

SystemMsgs(cleaned, heap) ==
    LET Test(ref) == IsPinned(heap[ref]) IN SelectSeq(cleaned, Test)

NonSystem(cleaned, heap) ==
    LET Test(ref) == ~ IsPinned(heap[ref]) IN SelectSeq(cleaned, Test)

\* OverBudget with the ceiling itself counted as over.
OverBudgetInclusive(refs, heap) == StringifyLength(Deref(refs, heap)) >= MAX_CHARS

\* Line 127.
OverBudget(refs, heap) == StringifyLength(Deref(refs, heap)) > MAX_CHARS

\* TrimLoop with a floor of 1 instead of 2.
RECURSIVE TrimLoopFloorOne(_, _, _)
TrimLoopFloorOne(systemMsgs, nonSystem, heap) ==
    IF Len(nonSystem) > 1 /\ OverBudget(systemMsgs \o nonSystem, heap)
    THEN TrimLoopFloorOne(systemMsgs, Tail(nonSystem), heap)
    ELSE nonSystem

\* TrimLoop without the floor: shifts as long as the payload is over the budget.
RECURSIVE TrimLoopNoFloor(_, _, _)
TrimLoopNoFloor(systemMsgs, nonSystem, heap) ==
    IF Len(nonSystem) > 0 /\ OverBudget(systemMsgs \o nonSystem, heap)
    THEN TrimLoopNoFloor(systemMsgs, Tail(nonSystem), heap)
    ELSE nonSystem

\* Lines 135-138: shift the oldest non-system message while more than two are
\* left and the recombined payload is still over the budget.
RECURSIVE TrimLoop(_, _, _)
TrimLoop(systemMsgs, nonSystem, heap) ==
    IF Len(nonSystem) > 2 /\ OverBudget(systemMsgs \o nonSystem, heap)
    THEN TrimLoop(systemMsgs, Tail(nonSystem), heap)
    ELSE nonSystem

\* TrimToBudget with the recombination of line 140 the other way round.
TrimToBudgetEvictableFirst(cleaned, heap) ==
    IF OverBudget(cleaned, heap)
    THEN TrimLoop(SystemMsgs(cleaned, heap), NonSystem(cleaned, heap), heap)
           \o SystemMsgs(cleaned, heap)
    ELSE cleaned

\* Lines 124-144: the budget trimmer on the validator's output.
TrimToBudget(cleaned, heap) ==
    IF OverBudget(cleaned, heap)
    THEN SystemMsgs(cleaned, heap)
           \o TrimLoop(SystemMsgs(cleaned, heap), NonSystem(cleaned, heap), heap)
    ELSE cleaned

\* Lines 75-147. input: the message objects of payload.messages. Result:
\*   refs      which input object stands at each position of the returned messages
\*   messages  the returned message sequence (the objects' values on return)
\*   cleaned   the validator's output (references)
\*   heap      the input objects after the call
SanitizePayload(input) ==
    LET v    == ValidatorLoop(1, {}, <<>>, input)
        refs == TrimToBudget(v.cleaned, v.heap)
    IN  [refs |-> refs, messages |-> Deref(refs, v.heap),
         cleaned |-> v.cleaned, heap |-> v.heap,
         validToolCallIds |-> v.validToolCallIds]

\* ------------------------------------------------------------ the inputs

Str(n) == [isArray |-> FALSE, chars |-> n, parts |-> <<>>]

Arr(parts) == [isArray |-> TRUE, chars |-> 0, parts |-> parts]

TextPart == [type |-> "text", tool_use_id |-> Undefined]

ToolResult(tool_use_id) == [type |-> "tool_result", tool_use_id |-> tool_use_id]

Msg(role, content, tool_calls, tool_call_id) ==
    [role |-> role, content |-> content,
     tool_calls |-> tool_calls, tool_call_id |-> tool_call_id]

\* A string content of half the budget: two of them exceed MAX_CHARS.
BigChars == MAX_CHARS \div 2

\* Message shapes exercising the validator (and, with the big ones, the trimmer).
ValidatorMsgs ==
    { Msg("system", Str(5), Undefined, Undefined),
      Msg("developer", Arr(<<ToolResult(Some("b2"))>>), Undefined, Undefined),
      Msg("user", Str(BigChars), Undefined, Undefined),
      Msg("user", Arr(<<TextPart, ToolResult(Some("a1"))>>), Undefined, Undefined),
      Msg("user", Arr(<<ToolResult(Undefined), ToolResult(Some(""))>>), Undefined, Undefined),
      Msg("user", Arr(<<>>), Undefined, Undefined),
      Msg("assistant", Str(5), Some(<<"a1">>), Undefined),
      Msg("assistant", Arr(<<ToolResult(Some("a1"))>>), Some(<<"b2">>), Undefined),
      Msg("assistant", Arr(<<ToolResult(Some("b2"))>>), Some(<<"b2">>), Undefined),
      Msg("tool", Str(5), Undefined, Some("a1")),
      Msg("tool", Str(BigChars), Undefined, Some("b2")),
      Msg("tool", Str(5), Undefined, Undefined),
      Msg("tool", Str(5), Undefined, Some("")),
      Msg("tool", Arr(<<ToolResult(Some("b2"))>>), Undefined, Some("a1")) }

\* Message shapes exercising the trimmer: small and big, pinned and evictable.
TrimMsgs ==
    { Msg("system", Str(5), Undefined, Undefined),
      Msg("developer", Str(BigChars), Undefined, Undefined),
      Msg("user", Str(5), Undefined, Undefined),
      Msg("user", Str(BigChars), Undefined, Undefined),
      Msg("assistant", Str(5), Some(<<"a1">>), Undefined),
      Msg("tool", Str(BigChars), Undefined, Some("a1")) }

SeqsUpTo(S, n) == UNION {[1..k -> S] : k \in 0..n}

\* A user message that brings JSON.stringify of itself followed by rest to
\* exactly MAX_CHARS characters.
Filler(rest) ==
    LET empty == Msg("user", Str(0), Undefined, Undefined)
    IN  Msg("user", Str(MAX_CHARS - StringifyLength(<<empty>> \o rest)),
            Undefined, Undefined)

\* Histories whose serialized size is exactly the ceiling of line 127, a pinned
\* message standing after an evictable one.
AtCeilingHistories ==
    { <<Filler(rest)>> \o rest :
        rest \in { <<Msg("system", Str(5), Undefined, Undefined)>>,
                   <<Msg("developer", Str(5), Undefined, Undefined),
                     Msg("user", Str(5), Undefined, Undefined),
                     Msg("assistant", Str(5), Some(<<"a1">>), Undefined)>> } }

NoMaxTokens == [kind |-> "undefined", value |-> 0]

NullMaxTokens == [kind |-> "null", value |-> 0]

NumMaxTokens(n) == [kind |-> "number", value |-> n]

\* state.models.data: the registry the handler looks the model up in.
StateModels == <<[id |-> "gpt-4o", max_output_tokens |-> 4096],
                 [id |-> "o1", max_output_tokens |-> 100000]>>

Body(model, messages, max_tokens) ==
    [model |-> model, messages |-> messages, max_tokens |-> max_tokens]

\* What createChatCompletions resolves to: an object with "choices", an async
\* iterable of events, or a rejection.
JsonBackend == [kind |-> "json", events |-> <<>>]

StreamBackend(events) == [kind |-> "stream", events |-> events]

FailingBackend == [kind |-> "error", events |-> <<>>]

EventData == {"chunk1", "chunk2", "[DONE]"}

Scenario(b, be, approve) == [body |-> b, backend |-> be, manualApprove |-> approve]

\* Histories through the validator and the trimmer, answered with one response.
HistoryScenarios ==
    { Scenario(Body("unknown-model", h, NumMaxTokens(64)), JsonBackend, FALSE) :
        h \in SeqsUpTo(ValidatorMsgs, MaxLen) \cup SeqsUpTo(TrimMsgs, MaxLen + 1)
                 \cup AtCeilingHistories }

\* One short history under every model, max_tokens, approval and backend answer.
RelayScenarios ==
    { Scenario(Body(m, <<Msg("user", Str(5), Undefined, Undefined)>>, mt), be, ap) :
        m \in {"gpt-4o", "o1", "unknown-model"},
        mt \in {NoMaxTokens, NullMaxTokens, NumMaxTokens(0), NumMaxTokens(64)},
        be \in {JsonBackend, FailingBackend}
                 \cup {StreamBackend(ev) : ev \in SeqsUpTo(EventData, MaxEvents)},
        ap \in BOOLEAN }

Scenarios == HistoryScenarios \cup RelayScenarios

\* ------------------------------------------------------- handleCompletion

Reqs == {"r1", "r2"}

VARIABLES
    pc,             \* where each request's handler stands
    body,           \* the request's JSON body, as sent by the caller
    manualApprove,  \* state.manualApprove
    backend,        \* what the backend will answer to the request
    payload,        \* the handler's local variable payload
    parsed,         \* the message objects c.req.json() returned (payload.messages)
    cleaned,        \* sanitizePayload's local cleaned: references into parsed
    msgRefs,        \* which parsed object each message of payload.messages is
    selectedModel,  \* the handler's local selectedModel (optional)
    tokenCount,     \* "none", "counted" or "failed": how getTokenCount ended
    sent,           \* the payloads passed to createChatCompletions, in order
    pulled,         \* number of events taken from the response iterator
    chunk,          \* the loop variable of the relay (optional)
    written,        \* the events passed to stream.writeSSE, in order
    delivered,      \* the events the caller's channel accepted, in order
    connected,      \* FALSE once the caller has disconnected
    outcome         \* "none", "json", "streamed" or "error": how the request ended

vars == <<pc, body, manualApprove, backend, payload, parsed, cleaned, msgRefs, selectedModel,
          tokenCount, sent, pulled, chunk, written, delivered, connected, outcome>>

NoPayload == Body("", <<>>, NoMaxTokens)

\* The requests of `active` arrive, each with its scenario; the others never do.
InitWith(active, scenarios) ==
    /\ manualApprove \in BOOLEAN
    /\ \E sc \in [active -> scenarios] :
         /\ \A r \in active : sc[r].manualApprove = manualApprove
         /\ body = [r \in Reqs |-> IF r \in active THEN sc[r].body ELSE NoPayload]
         /\ backend = [r \in Reqs |-> IF r \in active THEN sc[r].backend ELSE JsonBackend]
    /\ pc = [r \in Reqs |-> IF r \in active THEN "rateLimit" ELSE "absent"]
    /\ payload = [r \in Reqs |-> NoPayload]
    /\ parsed = [r \in Reqs |-> <<>>]
    /\ cleaned = [r \in Reqs |-> <<>>]
    /\ msgRefs = [r \in Reqs |-> <<>>]
    /\ selectedModel = [r \in Reqs |-> Undefined]
    /\ tokenCount = [r \in Reqs |-> "none"]
    /\ sent = [r \in Reqs |-> <<>>]
    /\ pulled = [r \in Reqs |-> 0]
    /\ chunk = [r \in Reqs |-> Undefined]
    /\ written = [r \in Reqs |-> <<>>]
    /\ delivered = [r \in Reqs |-> <<>>]
    /\ connected = [r \in Reqs |-> TRUE]
    /\ outcome = [r \in Reqs |-> "none"]

Init == InitWith({"r1"}, Scenarios)

\* Line 18: checkRateLimit resolves.
CheckRateLimit(r) ==
    /\ pc[r] = "rateLimit"
    /\ pc' = [pc EXCEPT ![r] = "parse"]
    /\ UNCHANGED <<body, manualApprove, backend, payload, parsed, cleaned, msgRefs,
                   selectedModel, tokenCount, sent, pulled, chunk, written,
                   delivered, connected, outcome>>

\* Line 18: checkRateLimit throws; the handler ends there.
RateLimitExceeded(r) ==
    /\ pc[r] = "rateLimit"
    /\ pc' = [pc EXCEPT ![r] = "failed"]
    /\ outcome' = [outcome EXCEPT ![r] = "error"]
    /\ UNCHANGED <<body, manualApprove, backend, payload, parsed, cleaned, msgRefs,
                   selectedModel, tokenCount, sent, pulled, chunk, written,
                   delivered, connected>>

\* Lines 24-26: state.models?.data.find(model => model.id === id).
FindModel(id) ==
    LET hits == SelectSeq(StateModels, LAMBDA model : model.id = id)
    IN  IF hits = <<>> THEN Undefined ELSE Some(Head(hits))

\* Lines 20-35: the body is parsed and the model looked up; with a model the
\* handler awaits getTokenCount, without one it goes on to line 40.
ParseBody(r) ==
    /\ pc[r] = "parse"
    /\ payload' = [payload EXCEPT ![r] = body[r]]
    /\ parsed' = [parsed EXCEPT ![r] = body[r].messages]
    /\ msgRefs' = [msgRefs EXCEPT ![r] = [k \in 1..Len(body[r].messages) |-> k]]
    /\ selectedModel' = [selectedModel EXCEPT ![r] = FindModel(body[r].model)]
    /\ pc' = [pc EXCEPT ![r] =
                IF FindModel(body[r].model) # Undefined THEN "tokenCount" ELSE "approval"]
    /\ UNCHANGED <<body, manualApprove, backend, cleaned, tokenCount, sent, pulled,
                   chunk, written, delivered, connected, outcome>>

\* Lines 31-32: getTokenCount resolves.
TokenCounted(r) ==
    /\ pc[r] = "tokenCount"
    /\ tokenCount' = [tokenCount EXCEPT ![r] = "counted"]
    /\ pc' = [pc EXCEPT ![r] = "approval"]
    /\ UNCHANGED <<body, manualApprove, backend, payload, parsed, cleaned, msgRefs,
                   selectedModel, sent, pulled, chunk, written, delivered,
                   connected, outcome>>

\* TokenCountFailed without the try/catch: the error leaves the handler.
TokenCountRethrown(r) ==
    /\ pc[r] = "tokenCount"
    /\ tokenCount' = [tokenCount EXCEPT ![r] = "failed"]
    /\ pc' = [pc EXCEPT ![r] = "failed"]
    /\ outcome' = [outcome EXCEPT ![r] = "error"]
    /\ UNCHANGED <<body, manualApprove, backend, payload, parsed, cleaned, msgRefs,
                   selectedModel, sent, pulled, chunk, written, delivered,
                   connected>>

\* Lines 36-38: getTokenCount throws; the catch block logs and goes on.
TokenCountFailed(r) ==
    /\ pc[r] = "tokenCount"
    /\ tokenCount' = [tokenCount EXCEPT ![r] = "failed"]
    /\ pc' = [pc EXCEPT ![r] = "approval"]
    /\ UNCHANGED <<body, manualApprove, backend, payload, parsed, cleaned, msgRefs,
                   selectedModel, sent, pulled, chunk, written, delivered,
                   connected, outcome>>

\* Line 40: with state.manualApprove set the handler awaits awaitApproval.
AwaitApproval(r) ==
    /\ pc[r] = "approval"
    /\ manualApprove
    /\ pc' = [pc EXCEPT ![r] = "approving"]
    /\ UNCHANGED <<body, manualApprove, backend, payload, parsed, cleaned, msgRefs,
                   selectedModel, tokenCount, sent, pulled, chunk, written,
                   delivered, connected, outcome>>

\* The ids declared in the histories of the requests validated so far.
IdsOfValidatedRequests ==
    UNION { ValidatorLoop(1, {}, <<>>, body[q].messages).validToolCallIds :
              q \in {q \in Reqs : pc[q] \in {"trim", "maxTokens", "dispatch",
                                             "responding", "pull", "write", "done"}} }

\* Validate with validToolCallIds declared outside the function: the set lives
\* on from one request to the next.
ValidateSharedIds(r) ==
    /\ \/ pc[r] = "approval" /\ ~ manualApprove
       \/ pc[r] = "approving"
    /\ LET v == ValidatorLoop(1, IdsOfValidatedRequests, <<>>, parsed[r])
       IN  /\ cleaned' = [cleaned EXCEPT ![r] = v.cleaned]
           /\ parsed' = [parsed EXCEPT ![r] = v.heap]
    /\ pc' = [pc EXCEPT ![r] = "trim"]
    /\ UNCHANGED <<body, manualApprove, backend, payload, msgRefs, selectedModel,
                   tokenCount, sent, pulled, chunk, written, delivered, connected,
                   outcome>>

\* Lines 43, 76-120: sanitizePayload's first fix, run once line 40 is passed
\* (approval not required, or granted). The loop assigns the filtered content to
\* the message objects themselves.
Validate(r) ==
    /\ \/ pc[r] = "approval" /\ ~ manualApprove
       \/ pc[r] = "approving"
    /\ LET v == ValidatorLoop(1, {}, <<>>, parsed[r])
       IN  /\ cleaned' = [cleaned EXCEPT ![r] = v.cleaned]
           /\ parsed' = [parsed EXCEPT ![r] = v.heap]
    /\ pc' = [pc EXCEPT ![r] = "trim"]
    /\ UNCHANGED <<body, manualApprove, backend, payload, msgRefs, selectedModel,
                   tokenCount, sent, pulled, chunk, written, delivered, connected,
                   outcome>>

\* Lines 43, 124-146: sanitizePayload's second fix and its return value,
\* { ...payload, messages }.
Trim(r) ==
    /\ pc[r] = "trim"
    /\ LET kept == TrimToBudget(cleaned[r], parsed[r])
       IN  /\ msgRefs' = [msgRefs EXCEPT ![r] = kept]
           /\ payload' = [payload EXCEPT ![r].messages = Deref(kept, parsed[r])]
    /\ pc' = [pc EXCEPT ![r] = "maxTokens"]
    /\ UNCHANGED <<body, manualApprove, backend, parsed, cleaned, selectedModel,
                   tokenCount, sent, pulled, chunk, written, delivered, connected,
                   outcome>>

\* isNullish of ~/lib/utils: null or undefined.
IsNullish(v) == v.kind = "undefined" \/ v.kind = "null"

\* WithDefaultMaxTokens testing !payload.max_tokens: 0 counts as missing.
WithDefaultMaxTokensFalsy(p, model) ==
    IF p.max_tokens.kind # "number" \/ p.max_tokens.value = 0
    THEN [p EXCEPT !.max_tokens =
            IF model = Undefined THEN [kind |-> "undefined", value |-> 0]
            ELSE [kind |-> "number", value |-> model[1].max_output_tokens]]
    ELSE p

\* Lines 45-51: the payload after max_tokens defaulting. An undefined
\* max_output_tokens (no selected model) leaves max_tokens undefined.
WithDefaultMaxTokens(p, model) ==
    IF IsNullish(p.max_tokens)
    THEN [p EXCEPT !.max_tokens =
            IF model = Undefined THEN NoMaxTokens
            ELSE NumMaxTokens(model[1].max_output_tokens)]
    ELSE p

DefaultMaxTokens(r) ==
    /\ pc[r] = "maxTokens"
    /\ payload' = [payload EXCEPT ![r] = WithDefaultMaxTokens(payload[r], selectedModel[r])]
    /\ pc' = [pc EXCEPT ![r] = "dispatch"]
    /\ UNCHANGED <<body, manualApprove, backend, parsed, cleaned, msgRefs,
                   selectedModel, tokenCount, sent, pulled, chunk, written,
                   delivered, connected, outcome>>

\* Line 53: createChatCompletions(payload) is called and awaited.
Dispatch(r) ==
    /\ pc[r] = "dispatch"
    /\ sent' = [sent EXCEPT ![r] = Append(sent[r], payload[r])]
    /\ pc' = [pc EXCEPT ![r] = "responding"]
    /\ UNCHANGED <<body, manualApprove, backend, payload, parsed, cleaned, msgRefs,
                   selectedModel, tokenCount, pulled, chunk, written, delivered,
                   connected, outcome>>

\* DispatchFailed with a retry: the handler calls createChatCompletions again.
DispatchFailedRetries(r) ==
    /\ pc[r] = "responding"
    /\ backend[r].kind = "error"
    /\ pc' = [pc EXCEPT ![r] = "dispatch"]
    /\ UNCHANGED <<body, manualApprove, backend, payload, parsed, cleaned, msgRefs,
                   selectedModel, tokenCount, sent, pulled, chunk, written,
                   delivered, connected, outcome>>

\* Line 53: createChatCompletions rejects; the error leaves the handler.
DispatchFailed(r) ==
    /\ pc[r] = "responding"
    /\ backend[r].kind = "error"
    /\ pc' = [pc EXCEPT ![r] = "failed"]
    /\ outcome' = [outcome EXCEPT ![r] = "error"]
    /\ UNCHANGED <<body, manualApprove, backend, payload, parsed, cleaned, msgRefs,
                   selectedModel, tokenCount, sent, pulled, chunk, written,
                   delivered, connected>>

\* Lines 149-151: the response has an own property "choices".
IsNonStreaming(response) == response.kind = "json"

\* Lines 55-58: a complete response is returned as JSON.
ReturnJson(r) ==
    /\ pc[r] = "responding"
    /\ backend[r].kind # "error"
    /\ IsNonStreaming(backend[r])
    /\ pc' = [pc EXCEPT ![r] = "done"]
    /\ outcome' = [outcome EXCEPT ![r] = "json"]
    /\ UNCHANGED <<body, manualApprove, backend, payload, parsed, cleaned, msgRefs,
                   selectedModel, tokenCount, sent, pulled, chunk, written,
                   delivered, connected>>

\* Lines 60-61: otherwise streamSSE starts the relay callback.
StartStream(r) ==
    /\ pc[r] = "responding"
    /\ backend[r].kind # "error"
    /\ ~ IsNonStreaming(backend[r])
    /\ pc' = [pc EXCEPT ![r] = "pull"]
    /\ UNCHANGED <<body, manualApprove, backend, payload, parsed, cleaned, msgRefs,
                   selectedModel, tokenCount, sent, pulled, chunk, written,
                   delivered, connected, outcome>>

\* IsSentinel comparing the event object, not its data, with the sentinel.
IsSentinelOfChunk(data) == FALSE

\* Line 64.
IsSentinel(data) == data = "[DONE]"

\* Pull with line 69's await missing: the loop takes the next event while the
\* write of the previous one is still pending.
PullWithoutAwait(r) ==
    /\ pc[r] \in {"pull", "write"}
    /\ pulled[r] < Len(backend[r].events)
    /\ pulled' = [pulled EXCEPT ![r] = pulled[r] + 1]
    /\ chunk' = [chunk EXCEPT ![r] = Some(backend[r].events[pulled[r] + 1])]
    /\ pc' = [pc EXCEPT ![r] = "write"]
    /\ UNCHANGED <<body, manualApprove, backend, payload, parsed, cleaned, msgRefs,
                   selectedModel, tokenCount, sent, written, delivered, connected,
                   outcome>>

\* Lines 62-67: the for await loop takes the next event. The loop ends when the
\* source is exhausted or the event is the sentinel (break); otherwise the event
\* goes to line 69.
Pull(r) ==
    /\ pc[r] = "pull"
    /\ IF pulled[r] = Len(backend[r].events)
       THEN /\ pc' = [pc EXCEPT ![r] = "done"]
            /\ outcome' = [outcome EXCEPT ![r] = "streamed"]
            /\ UNCHANGED <<pulled, chunk>>
       ELSE /\ pulled' = [pulled EXCEPT ![r] = pulled[r] + 1]
            /\ chunk' = [chunk EXCEPT ![r] = Some(backend[r].events[pulled[r] + 1])]
            /\ IF IsSentinel(backend[r].events[pulled[r] + 1])
               THEN /\ pc' = [pc EXCEPT ![r] = "done"]
                    /\ outcome' = [outcome EXCEPT ![r] = "streamed"]
               ELSE /\ pc' = [pc EXCEPT ![r] = "write"]
                    /\ UNCHANGED outcome
    /\ UNCHANGED <<body, manualApprove, backend, payload, parsed, cleaned, msgRefs,
                   selectedModel, tokenCount, sent, written, delivered, connected>>

\* Line 69: await stream.writeSSE(chunk). The loop has no other exit: the write
\* is made whether or not the caller is still there, and a write to a caller
\* that has gone reaches nobody.
WriteSSE(r) ==
    /\ pc[r] = "write"
    /\ written' = [written EXCEPT ![r] = Append(written[r], chunk[r][1])]
    /\ delivered' = [delivered EXCEPT ![r] =
                       IF connected[r] THEN Append(delivered[r], chunk[r][1])
                       ELSE delivered[r]]
    /\ pc' = [pc EXCEPT ![r] = "pull"]
    /\ UNCHANGED <<body, manualApprove, backend, payload, parsed, cleaned, msgRefs,
                   selectedModel, tokenCount, sent, pulled, chunk, connected, outcome>>

\* The caller disconnects while the relay is running. Nothing in lines 61-71
\* reads the connection's state (no onAbort handler, no test of stream.aborted).
Disconnect(r) ==
    /\ pc[r] \in {"pull", "write"}
    /\ connected[r]
    /\ connected' = [connected EXCEPT ![r] = FALSE]
    /\ UNCHANGED <<pc, body, manualApprove, backend, payload, parsed, cleaned, msgRefs,
                   selectedModel, tokenCount, sent, pulled, chunk, written,
                   delivered, outcome>>

Next ==
    \E r \in Reqs :
        \/ CheckRateLimit(r)
        \/ RateLimitExceeded(r)
        \/ ParseBody(r)
        \/ TokenCounted(r)
        \/ TokenCountFailed(r)
        \/ AwaitApproval(r)
        \/ Validate(r)
        \/ Trim(r)
        \/ DefaultMaxTokens(r)
        \/ Dispatch(r)
        \/ DispatchFailed(r)
        \/ ReturnJson(r)
        \/ StartStream(r)
        \/ Pull(r)
        \/ WriteSSE(r)
        \/ Disconnect(r)

Spec == Init /\ [][Next]_vars

\* ---------------------------------------------------------------- claims

Range(s) == {s[k] : k \in 1..Len(s)}

\* sanitizePayload has just returned for request r.
Sanitized(r) == pc[r] = "maxTokens"

\* The validator has just finished for request r.
Validated(r) == pc[r] = "trim"

\* Some assistant message before position k of msgs declares id in its tool_calls.
DeclaredBefore(msgs, k, id) ==
    \E j \in 1..(k - 1) :
        /\ msgs[j].role = "assistant"
        /\ msgs[j].tool_calls # Undefined
        /\ id \in Range(msgs[j].tool_calls[1])

\* Position k of msgs holds no tool-result reference (a tool message's
\* tool_call_id, a tool_result part's tool_use_id; non-empty identifiers) that
\* no earlier assistant message of msgs declares. A part of an assistant
\* message may also refer to that message's own tool_calls.
ReferencesResolve(msgs, k) ==
    /\ (msgs[k].role = "tool" /\ Truthy(msgs[k].tool_call_id))
          => DeclaredBefore(msgs, k, msgs[k].tool_call_id[1])
    /\ msgs[k].content.isArray =>
          \A i \in 1..Len(msgs[k].content.parts) :
              LET part == msgs[k].content.parts[i]
              IN  (part.type = "tool_result" /\ Truthy(part.tool_use_id))
                     => DeclaredBefore(msgs, k + 1, part.tool_use_id[1])

\* C1: in the message sequence sanitizePayload returns, every tool message's
\* tool_call_id and every tool_result part's tool_use_id is declared by the
\* tool_calls of an assistant message at an earlier position of that sequence.
C1_ReferencesResolveInOutput ==
    \A r \in Reqs :
        Sanitized(r) =>
            \A k \in 1..Len(payload[r].messages) :
                ReferencesResolve(payload[r].messages, k)

\* C2: a tool message with string content and a non-empty tool_call_id t is in
\* the validator's output if and only if an assistant message at an earlier
\* position of the input declares t.
C2_ToolMessageKeptIffDeclared ==
    \A r \in Reqs :
        Validated(r) =>
            \A k \in 1..Len(body[r].messages) :
                LET msg == body[r].messages[k]
                IN  (msg.role = "tool" /\ ~ msg.content.isArray
                        /\ Truthy(msg.tool_call_id))
                    => (k \in Range(cleaned[r])
                          <=> DeclaredBefore(body[r].messages, k, msg.tool_call_id[1]))

\* C2 as stated: the same for every tool_call_id the message carries, the empty
\* string included.
C2_AnyCarriedId ==
    \A r \in Reqs :
        Validated(r) =>
            \A k \in 1..Len(body[r].messages) :
                LET msg == body[r].messages[k]
                IN  (msg.role = "tool" /\ ~ msg.content.isArray
                        /\ msg.tool_call_id # Undefined)
                    => (k \in Range(cleaned[r])
                          <=> DeclaredBefore(body[r].messages, k, msg.tool_call_id[1]))

\* C2's case: a declared tool result is kept and an orphaned one is dropped, the
\* declaring assistant message and the kept result being the only survivors.
C2_Witness ==
    /\ Validated("r1")
    /\ Len(body["r1"].messages) = 3
    /\ body["r1"].messages[1].role = "assistant"
    /\ body["r1"].messages[2].role = "tool"
    /\ body["r1"].messages[3].role = "tool"
    /\ body["r1"].messages[2].tool_call_id = Some("a1")
    /\ body["r1"].messages[3].tool_call_id = Some("b2")
    /\ cleaned["r1"] = <<1, 2>>

\* C1's failing case through the trimmer: the declaring assistant message is
\* the oldest evictable one and is shifted out while its tool result stays.
C1_TrimmerOrphans ==
    /\ Sanitized("r1")
    /\ Len(cleaned["r1"]) = 3
    /\ parsed["r1"][1].role = "assistant"
    /\ parsed["r1"][2].role = "tool"
    /\ parsed["r1"][2].tool_call_id = Some("a1")
    /\ DeclaredBefore(parsed["r1"], 2, "a1")
    /\ msgRefs["r1"] = <<2, 3>>

\* The events before the first sentinel (all of them if there is none).
FirstSentinel(events) ==
    IF \E k \in 1..Len(events) : events[k] = "[DONE]"
    THEN CHOOSE k \in 1..Len(events) :
            /\ events[k] = "[DONE]"
            /\ \A j \in 1..(k - 1) : events[j] # "[DONE]"
    ELSE Len(events) + 1

BeforeSentinel(events) == SubSeq(events, 1, FirstSentinel(events) - 1)

IsPrefix(s, t) == Len(s) <= Len(t) /\ s = SubSeq(t, 1, Len(s))

\* C3: the relay passes to writeSSE the events before the first "[DONE]", in
\* arrival order, each once; it never writes the sentinel, pulls nothing after
\* it, and has written exactly those events when it ends; a caller that stays
\* connected receives each of them.
C3_RelayStopsAtSentinel ==
    \A r \in Reqs :
        LET events == backend[r].events
        IN  /\ IsPrefix(written[r], BeforeSentinel(events))
            /\ pulled[r] <= FirstSentinel(events)
            /\ pulled[r] <= Len(events)
            /\ Len(written[r]) <= pulled[r]
            /\ outcome[r] = "streamed" =>
                  /\ pc[r] = "done"
                  /\ written[r] = BeforeSentinel(events)
                  /\ pulled[r] = IF FirstSentinel(events) <= Len(events)
                                 THEN FirstSentinel(events) ELSE Len(events)
            /\ connected[r] => delivered[r] = written[r]

\* C3's case: the relay has ended on a sentinel that an event follows.
C3_Witness ==
    /\ outcome["r1"] = "streamed"
    /\ backend["r1"].events = <<"chunk1", "[DONE]", "chunk2">>
    /\ written["r1"] = <<"chunk1">>
    /\ delivered["r1"] = <<"chunk1">>
    /\ pulled["r1"] = 2

\* C4: sanitizing the sanitized message sequence again gives the same sequence.
C4_Idempotent ==
    \A r \in Reqs :
        Sanitized(r) =>
            SanitizePayload(payload[r].messages).messages = payload[r].messages

PinnedRole(msg) == msg.role \in {"system", "developer"}

\* The validator's output of request r is over the size ceiling.
CleanedOverCeiling(r) == StringifyLength(Deref(cleaned[r], parsed[r])) > 480000

\* C5 as stated: any two messages of sanitizePayload's output stand in the
\* order they had in the input.
C5_OrderPreserved ==
    \A r \in Reqs :
        Sanitized(r) =>
            \A i, j \in 1..Len(msgRefs[r]) :
                i < j => msgRefs[r][i] < msgRefs[r][j]

\* C5, amended: two messages of the output stand in their input order when both
\* are pinned, or both evictable, or the validated sequence was within the
\* ceiling; when it was over the ceiling every pinned message stands before
\* every evictable one.
C5_OrderPreservedWithinPartitions ==
    \A r \in Reqs :
        Sanitized(r) =>
            \A i, j \in 1..Len(msgRefs[r]) :
                LET a == parsed[r][msgRefs[r][i]]
                    b == parsed[r][msgRefs[r][j]]
                IN  i < j =>
                      /\ (PinnedRole(a) = PinnedRole(b) \/ ~ CleanedOverCeiling(r))
                            => msgRefs[r][i] < msgRefs[r][j]
                      /\ (CleanedOverCeiling(r) /\ PinnedRole(a) # PinnedRole(b))
                            => PinnedRole(a)

\* C5's case: the trimmer ran and moved a pinned message ahead of an evictable
\* message that preceded it in the input, both partitions keeping their order.
C5_Witness ==
    /\ Sanitized("r1")
    /\ CleanedOverCeiling("r1")
    /\ Len(msgRefs["r1"]) = 4
    /\ \E i \in 1..3 : msgRefs["r1"][i] > msgRefs["r1"][i + 1]
    /\ PinnedRole(parsed["r1"][msgRefs["r1"][2]])
    /\ ~ PinnedRole(parsed["r1"][msgRefs["r1"][3]])

\* C6: every system or developer message of the validated sequence is in the
\* trimmer's output, once, whatever the serialized size.
C6_PinnedNeverRemoved ==
    \A r \in Reqs :
        Sanitized(r) =>
            \A k \in Range(cleaned[r]) :
                PinnedRole(parsed[r][k]) =>
                    Cardinality({i \in 1..Len(msgRefs[r]) : msgRefs[r][i] = k}) = 1

\* C6's case: the trimmer removed a message while a pinned message, itself half
\* the ceiling and the oldest of all, was there to remove.
C6_Witness ==
    /\ Sanitized("r1")
    /\ CleanedOverCeiling("r1")
    /\ Len(msgRefs["r1"]) < Len(cleaned["r1"])
    /\ cleaned["r1"][1] = 1
    /\ parsed["r1"][1].role = "developer"
    /\ parsed["r1"][1].content.chars = 240000
    /\ msgRefs["r1"][1] = 1

\* The pinned and the evictable references of the validated sequence, in order.
PinnedOf(r) == SelectSeq(cleaned[r], LAMBDA k : PinnedRole(parsed[r][k]))

EvictableOf(r) == SelectSeq(cleaned[r], LAMBDA k : ~ PinnedRole(parsed[r][k]))

LastOf(s, n) == SubSeq(s, Len(s) - n + 1, Len(s))

\* The suffix lengths of at least 2 for which pinned + suffix is within the ceiling.
FittingSuffixes(r) ==
    { n \in 2..Len(EvictableOf(r)) :
        StringifyLength(Deref(PinnedOf(r) \o LastOf(EvictableOf(r), n), parsed[r]))
            <= 480000 }

Max(S) == CHOOSE n \in S : \A m \in S : m <= n

\* The length of the evictable tail the trimmer is to leave.
ExpectedTail(r) ==
    IF FittingSuffixes(r) # {} THEN Max(FittingSuffixes(r))
    ELSE IF Len(EvictableOf(r)) < 2 THEN Len(EvictableOf(r)) ELSE 2

\* C7: over the ceiling, the trimmer returns the pinned messages in order, then
\* the longest suffix of the evictable messages that fits the ceiling with them,
\* or the last 2 (all, if fewer) when no suffix of 2 or more fits.
C7_TrimmedToLongestFittingSuffix ==
    \A r \in Reqs :
        (Sanitized(r) /\ CleanedOverCeiling(r)) =>
            /\ msgRefs[r] = PinnedOf(r) \o LastOf(EvictableOf(r), ExpectedTail(r))
            /\ Len(EvictableOf(r)) >= 2 => Len(msgRefs[r]) - Len(PinnedOf(r)) >= 2

\* C7's case: four evictable messages over the ceiling, of which the oldest is
\* removed and the three that fit are kept.
C7_Witness ==
    /\ Sanitized("r1")
    /\ CleanedOverCeiling("r1")
    /\ Len(EvictableOf("r1")) = 4
    /\ FittingSuffixes("r1") = {2, 3}
    /\ msgRefs["r1"] = <<2, 3, 4>>

\* C8 as stated: with at most 2 evictable messages the trimmer returns the
\* validated sequence as it is.
C8_FewEvictableUnchanged ==
    \A r \in Reqs :
        (Sanitized(r) /\ Len(EvictableOf(r)) <= 2) => msgRefs[r] = cleaned[r]

\* C8, amended: with at most 2 evictable messages the trimmer removes nothing;
\* over the ceiling it returns the pinned messages in order followed by the
\* evictable ones in order, and within the ceiling the sequence as it is.
C8_FewEvictableNothingRemoved ==
    \A r \in Reqs :
        (Sanitized(r) /\ Len(EvictableOf(r)) <= 2) =>
            msgRefs[r] = IF CleanedOverCeiling(r)
                         THEN PinnedOf(r) \o EvictableOf(r)
                         ELSE cleaned[r]

\* C8's case: over the ceiling with 2 evictable messages, a pinned message
\* standing behind an evictable one.
C8_Witness ==
    /\ Sanitized("r1")
    /\ CleanedOverCeiling("r1")
    /\ Len(EvictableOf("r1")) = 2
    /\ Len(PinnedOf("r1")) = 1
    /\ cleaned["r1"] = <<1, 2, 3>>
    /\ msgRefs["r1"] = <<2, 1, 3>>

\* C9: once the caller has disconnected and a write has met the closed channel,
\* the relay pulls no further event and writes no further event.
C9_StopsAfterDisconnect ==
    [][\A r \in Reqs :
          (~ connected[r] /\ Len(written[r]) > Len(delivered[r]))
             => (pulled'[r] = pulled[r] /\ written'[r] = written[r])]_vars

\* The model the registry holds under the id (none: no such model).
Registered(id) == {StateModels[k] : k \in {i \in 1..Len(StateModels) : StateModels[i].id = id}}

\* C10: a max_tokens number of the request is forwarded as it is; without one
\* (absent or null) the forwarded max_tokens is the registered model's
\* max_output_tokens, and undefined when the model is not registered; the
\* request is dispatched in each case.
C10_MaxTokensDefaulting ==
    \A r \in Reqs :
        /\ pc[r] \in {"dispatch", "responding", "done", "pull", "write"} =>
              LET given == body[r].max_tokens
                  forwarded == payload[r].max_tokens
              IN  /\ given.kind = "number" => forwarded = given
                  /\ (given.kind # "number" /\ Registered(body[r].model) # {}) =>
                        \E model \in Registered(body[r].model) :
                            forwarded = [kind |-> "number", value |-> model.max_output_tokens]
                  /\ (given.kind # "number" /\ Registered(body[r].model) = {}) =>
                        forwarded.kind = "undefined"
        /\ \A k \in 1..Len(sent[r]) : sent[r][k] = payload[r]
        /\ pc[r] \in {"responding", "done", "pull", "write"} => Len(sent[r]) = 1

\* C10's case: a request without max_tokens for an unregistered model has been
\* dispatched, max_tokens undefined.
C10_Witness ==
    /\ pc["r1"] = "responding"
    /\ body["r1"].max_tokens.kind = "undefined"
    /\ body["r1"].model = "unknown-model"
    /\ Len(sent["r1"]) = 1
    /\ sent["r1"][1].max_tokens.kind = "undefined"

\* ------------------------------------------------- two concurrent requests

\* Scenarios of two requests handled at once: a history the trimmer cuts (its
\* assistant message declares a1), a history whose tool results refer to an a1
\* it never declares, and a request the backend rejects.
PairScenarios ==
    { Scenario(Body("gpt-4o",
                    <<Msg("assistant", Str(5), Some(<<"a1">>), Undefined),
                      Msg("tool", Str(BigChars), Undefined, Some("a1")),
                      Msg("user", Str(BigChars), Undefined, Undefined)>>,
                    NoMaxTokens),
               StreamBackend(<<"chunk1", "[DONE]">>), ap) : ap \in BOOLEAN }
    \cup
    { Scenario(Body("unknown-model",
                    <<Msg("tool", Str(5), Undefined, Some("a1")),
                      Msg("user", Arr(<<TextPart, ToolResult(Some("a1"))>>),
                          Undefined, Undefined)>>,
                    NumMaxTokens(64)),
               JsonBackend, ap) : ap \in BOOLEAN }
    \cup
    { Scenario(Body("o1", <<Msg("user", Str(5), Undefined, Undefined)>>, NullMaxTokens),
               FailingBackend, ap) : ap \in BOOLEAN }

InitPair == InitWith(Reqs, PairScenarios)

SpecPair == InitPair /\ [][Next]_vars

\* C11: a request whose getTokenCount failed is not ended by that failure (it
\* can only fail at dispatch, after its one dispatch), goes on from line 40, and
\* dispatches the payload that a request with the same body whose token count
\* succeeded dispatches.
C11_TokenCountFailureIgnored ==
    \A r \in Reqs :
        tokenCount[r] = "failed" =>
            /\ pc[r] # "tokenCount"
            /\ pc[r] = "failed" => (Len(sent[r]) = 1 /\ backend[r].kind = "error")
            /\ pc[r] = "approval" => ENABLED (AwaitApproval(r) \/ Validate(r))
            /\ \A q \in Reqs :
                  (body[q] = body[r] /\ tokenCount[q] = "counted"
                      /\ sent[q] # <<>> /\ sent[r] # <<>>)
                  => sent[q] = sent[r]

\* C11's case: of two requests with the same body, one counted its tokens and
\* one failed to; both have been approved, sanitized (trimmed) and dispatched.
C11_Witness ==
    /\ tokenCount["r1"] = "failed"
    /\ tokenCount["r2"] = "counted"
    /\ body["r1"] = body["r2"]
    /\ manualApprove
    /\ Len(body["r1"].messages) = 3
    /\ Len(sent["r1"]) = 1
    /\ Len(sent["r2"]) = 1
    /\ Len(sent["r1"][1].messages) = 2

\* How far request r's handler has come.
Stage(r) ==
    CASE pc[r] = "absent"     -> 0
      [] pc[r] = "rateLimit"  -> 0
      [] pc[r] = "parse"      -> 1
      [] pc[r] = "tokenCount" -> 2
      [] pc[r] = "approval"   -> 3
      [] pc[r] = "approving"  -> 4
      [] pc[r] = "trim"       -> 5
      [] pc[r] = "maxTokens"  -> 6
      [] pc[r] = "dispatch"   -> 7
      [] pc[r] = "responding" -> 8
      [] pc[r] = "pull"       -> 9
      [] pc[r] = "write"      -> 9
      [] pc[r] = "done"       -> 10
      [] pc[r] = "failed"     -> 10

\* What holds of request r at each point of the order of C12.
InOrder(r) ==
    /\ Stage(r) <= 4 =>
          /\ cleaned[r] = <<>>
          /\ payload[r].messages \in {<<>>, body[r].messages}
    /\ Stage(r) <= 6 => payload[r].max_tokens \in {NoMaxTokens, body[r].max_tokens}
    /\ Stage(r) <= 7 => sent[r] = <<>>
    /\ Stage(r) \in 8..9 => Len(sent[r]) = 1
    /\ Stage(r) <= 8 => (pulled[r] = 0 /\ written[r] = <<>> /\ outcome[r] = "none")
    /\ sent[r] # <<>> =>
          /\ sent[r] = <<payload[r]>>
          /\ payload[r].messages = Deref(TrimToBudget(cleaned[r], parsed[r]), parsed[r])
    /\ outcome[r] \in {"json", "streamed"} =>
          (pc[r] = "done" /\ Len(sent[r]) = 1 /\ backend[r].kind # "error")
    /\ outcome[r] = "json" => (written[r] = <<>> /\ pulled[r] = 0)
    /\ pc[r] = "failed" =>
          /\ outcome[r] = "error"
          /\ \/ sent[r] = <<>> /\ cleaned[r] = <<>> /\ payload[r] = NoPayload
             \/ Len(sent[r]) = 1 /\ backend[r].kind = "error"

\* C12: each request goes through rate limit, body and token count, approval
\* (awaited exactly when manual approval is on), sanitization, max_tokens
\* defaulting, one dispatch of the resulting payload, then the JSON return or
\* the relay, in this order and never backwards; a request the rate limit
\* rejects is neither sanitized nor dispatched, and a failed dispatch ends the
\* request with no second dispatch.
C12_StepsInOrder ==
    /\ [](\A r \in Reqs : InOrder(r))
    /\ [][\A r \in Reqs :
            LET from == pc[r]
                to   == pc'[r]
            IN  /\ to # from =>
                     \/ from = "rateLimit"  /\ to \in {"parse", "failed"}
                     \/ from = "parse"      /\ to \in {"tokenCount", "approval"}
                     \/ from = "tokenCount" /\ to = "approval"
                     \/ from = "approval"   /\ to = "approving" /\ manualApprove
                     \/ from = "approval"   /\ to = "trim" /\ ~ manualApprove
                     \/ from = "approving"  /\ to = "trim"
                     \/ from = "trim"       /\ to = "maxTokens"
                     \/ from = "maxTokens"  /\ to = "dispatch"
                     \/ from = "dispatch"   /\ to = "responding"
                     \/ from = "responding" /\ to \in {"done", "pull", "failed"}
                     \/ from = "pull"       /\ to \in {"write", "done"}
                     \/ from = "write"      /\ to = "pull"
                /\ sent'[r] # sent[r] =>
                     (from = "dispatch" /\ sent[r] = <<>> /\ sent'[r] = <<payload[r]>>)
                /\ from = "failed" => (to = "failed" /\ sent'[r] = sent[r])
                /\ (from = "responding" /\ to = "failed") => backend[r].kind = "error"
         ]_vars

\* C12's case: with manual approval on, a request has been approved, sanitized,
\* given the model's max_tokens, dispatched once and relayed to its end.
C12_Witness ==
    /\ manualApprove
    /\ outcome["r1"] = "streamed"
    /\ body["r1"].max_tokens.kind = "undefined"
    /\ Len(sent["r1"]) = 1
    /\ sent["r1"][1].max_tokens = [kind |-> "number", value |-> 4096]
    /\ written["r1"] = <<"chunk1", "chunk2">>

\* C13: whatever the interleaving of two requests, each request's validator
\* output and sanitized message sequence are those of sanitizePayload on its own
\* body; a tool message is kept only if the request's own history declares its
\* id, and messages are trimmed away only if the request's own validated
\* sequence is over the ceiling.
C13_RequestsIsolated ==
    \A r \in Reqs :
        /\ pc[r] \in {"trim", "maxTokens", "dispatch", "responding", "pull", "write", "done"} =>
              /\ cleaned[r] = SanitizePayload(body[r].messages).cleaned
              /\ \A k \in Range(cleaned[r]) :
                    LET msg == body[r].messages[k]
                    IN  (msg.role = "tool" /\ Truthy(msg.tool_call_id))
                           => DeclaredBefore(body[r].messages, k, msg.tool_call_id[1])
        /\ pc[r] \in {"maxTokens", "dispatch", "responding", "pull", "write", "done"} =>
              /\ payload[r].messages = SanitizePayload(body[r].messages).messages
              /\ ~ CleanedOverCeiling(r) => msgRefs[r] = cleaned[r]

\* C13's case: one request, whose history declares a1 and is trimmed, has been
\* sanitized, and then the other, whose history only refers to a1: its tool
\* message and its tool_result part are gone, and nothing of it was trimmed.
C13_Witness ==
    /\ Stage("r1") > 6
    /\ Sanitized("r2")
    /\ DeclaredBefore(body["r1"].messages, 2, "a1")
    /\ Len(body["r1"].messages) = 3
    /\ Len(payload["r1"].messages) = 2
    /\ Len(body["r2"].messages) = 2
    /\ body["r2"].messages[1].tool_call_id = Some("a1")
    /\ cleaned["r2"] = <<2>>
    /\ Len(payload["r2"].messages) = 1
    /\ Len(payload["r2"].messages[1].content.parts) = 1

\* The relay of request r has taken the sentinel from the source.
SentinelConsumed(r) ==
    pulled[r] > 0 /\ backend[r].events[pulled[r]] = "[DONE]"

\* C14: the relay pulls an event only when writeSSE has resolved for every
\* event pulled before, so the events pulled exceed the events the channel has
\* taken (plus a consumed sentinel) by at most one; for a caller that stays
\* connected the same holds of the events it received.
C14_BackPressure ==
    \A r \in Reqs :
        LET consumed == IF SentinelConsumed(r) THEN 1 ELSE 0
        IN  /\ pulled[r] - (Len(written[r]) + consumed) \in {0, 1}
            /\ pc[r] = "pull" => pulled[r] = Len(written[r])
            /\ pc[r] = "write" => pulled[r] = Len(written[r]) + 1
            /\ outcome[r] = "streamed" => pulled[r] = Len(written[r]) + consumed
            /\ connected[r] => pulled[r] - (Len(delivered[r]) + consumed) \in {0, 1}

\* C14's case: two events have gone through and the third, pulled, waits for
\* the caller's channel before anything more is pulled.
C14_Witness ==
    /\ pc["r1"] = "write"
    /\ connected["r1"]
    /\ Len(backend["r1"].events) = 3
    /\ pulled["r1"] = 3
    /\ Len(delivered["r1"]) = 2
    /\ ~ ENABLED Pull("r1")

\* Message k of msgs is a tool message naming a non-empty tool_call_id that no
\* earlier assistant message declares.
OrphanedToolMessage(msgs, k) ==
    /\ msgs[k].role = "tool"
    /\ Truthy(msgs[k].tool_call_id)
    /\ ~ DeclaredBefore(msgs, k, msgs[k].tool_call_id[1])

\* The parts of message k of msgs without the tool_result parts whose
\* tool_use_id is one of those Refers selects and is declared by no assistant
\* message at or before position k.
PartsWithout(msgs, k, Refers(_)) ==
    LET Stays(part) == ~ ( /\ part.type = "tool_result"
                           /\ Refers(part.tool_use_id)
                           /\ ~ DeclaredBefore(msgs, k + 1, part.tool_use_id[1]) )
    IN  SelectSeq(msgs[k].content.parts, Stays)

\* What the validator made of the array content of the messages that are not
\* orphaned tool messages, against the parts expected to stay.
ArrayContentFiltered(r, Refers(_)) ==
    \A k \in 1..Len(body[r].messages) :
        LET msgs     == body[r].messages
            expected == PartsWithout(msgs, k, Refers)
        IN  (msgs[k].content.isArray /\ ~ OrphanedToolMessage(msgs, k)) =>
                /\ k \in Range(cleaned[r]) => parsed[r][k].content.parts = expected
                /\ expected # <<>> => k \in Range(cleaned[r])
                /\ (expected = <<>> /\ msgs[k].content.parts # <<>>)
                      => k \notin Range(cleaned[r])

\* C15: for a message with array content that is not an orphaned tool message,
\* the validator's content is the input parts in order without the tool_result
\* parts whose non-empty tool_use_id no assistant message at or before it
\* declares; other parts, and tool_result parts with no or an empty
\* tool_use_id, stay; the message is dropped when every part is removed.
C15_ArrayContentFiltered ==
    \A r \in Reqs : Validated(r) => ArrayContentFiltered(r, Truthy)

\* C15 as stated: the same with every tool_use_id a part carries, the empty
\* string included.
C15_AnyCarriedUseId ==
    \A r \in Reqs :
        Validated(r) => ArrayContentFiltered(r, LAMBDA id : id # Undefined)

\* C15's case: of two messages with array content, the first loses its
\* undeclared tool_result part and keeps its text part, the second loses its
\* only part and is dropped.
C15_Witness ==
    /\ Validated("r1")
    /\ Len(body["r1"].messages) = 2
    /\ body["r1"].messages[1].content = Arr(<<TextPart, ToolResult(Some("a1"))>>)
    /\ body["r1"].messages[2].content = Arr(<<ToolResult(Some("b2"))>>)
    /\ cleaned["r1"] = <<1>>
    /\ parsed["r1"][1].content.parts = <<TextPart>>

\* validToolCallIds when the drop checks of message i of msgs run: the set the
\* loop holds once it has scanned the first i messages.
ValidAt(msgs, i) == ValidatorLoop(1, {}, <<>>, SubSeq(msgs, 1, i)).validToolCallIds

\* The ids message msg declares.
DeclaredBy(msg) ==
    IF msg.role = "assistant" /\ msg.tool_calls # Undefined
    THEN Range(msg.tool_calls[1])
    ELSE {}

\* Every tool_result part of msg names nothing or one of msg's own tool_calls.
RefersToOwnIdsOnly(msg) ==
    \A i \in 1..Len(msg.content.parts) :
        LET part == msg.content.parts[i]
        IN  (part.type = "tool_result" /\ Truthy(part.tool_use_id))
               => part.tool_use_id[1] \in DeclaredBy(msg)

\* C16: the valid-identifier set only grows; the ids message i declares are in
\* it at the drop checks of message i and of every later message, whether
\* message i is kept or not, so a later tool message naming one of them is
\* kept; and an assistant message whose tool_result parts name only its own
\* tool_calls is kept with its content untouched.
C16_ValidSetOnlyGrows ==
    \A r \in Reqs :
        Validated(r) =>
            LET msgs == body[r].messages
            IN  \A i \in 1..Len(msgs) :
                    /\ ValidAt(msgs, i - 1) \subseteq ValidAt(msgs, i)
                    /\ \A j \in i..Len(msgs) : DeclaredBy(msgs[i]) \subseteq ValidAt(msgs, j)
                    /\ \A j \in (i + 1)..Len(msgs) :
                          ( /\ msgs[j].role = "tool"
                            /\ ~ msgs[j].content.isArray
                            /\ Truthy(msgs[j].tool_call_id)
                            /\ msgs[j].tool_call_id[1] \in DeclaredBy(msgs[i]) )
                          => j \in Range(cleaned[r])
                    /\ ( /\ msgs[i].role = "assistant"
                         /\ msgs[i].content.isArray
                         /\ msgs[i].content.parts # <<>>
                         /\ RefersToOwnIdsOnly(msgs[i]) )
                       => /\ i \in Range(cleaned[r])
                          /\ parsed[r][i] = msgs[i]

\* C16's case: the first assistant message declares b2 and is dropped for its
\* undeclared part, the tool result of b2 after it is kept, and the assistant
\* message referring to its own b2 is kept as it came.
C16_Witness ==
    /\ Validated("r1")
    /\ Len(body["r1"].messages) = 3
    /\ body["r1"].messages[1] =
          Msg("assistant", Arr(<<ToolResult(Some("a1"))>>), Some(<<"b2">>), Undefined)
    /\ body["r1"].messages[2].role = "tool"
    /\ body["r1"].messages[2].tool_call_id = Some("b2")
    /\ body["r1"].messages[3] =
          Msg("assistant", Arr(<<ToolResult(Some("b2"))>>), Some(<<"b2">>), Undefined)
    /\ cleaned["r1"] = <<2, 3>>
    /\ parsed["r1"][3] = body["r1"].messages[3]

\* C17: a message with string content that is not a tool message carrying an
\* undeclared tool_call_id is in the validator's output exactly as it came
\* (role, content, tool_calls, tool_call_id), a tool message with no
\* tool_call_id included; and every message the validator keeps has the role,
\* tool_calls and tool_call_id it came with.
C17_StringContentUntouched ==
    \A r \in Reqs :
        Validated(r) =>
            LET msgs == body[r].messages
            IN  /\ \A k \in 1..Len(msgs) :
                      ( /\ ~ msgs[k].content.isArray
                        /\ ~ ( /\ msgs[k].role = "tool"
                               /\ msgs[k].tool_call_id # Undefined
                               /\ ~ DeclaredBefore(msgs, k, msgs[k].tool_call_id[1]) ) )
                      => /\ k \in Range(cleaned[r])
                         /\ parsed[r][k] = msgs[k]
                /\ \A k \in Range(cleaned[r]) :
                      /\ parsed[r][k].tool_calls = msgs[k].tool_calls
                      /\ parsed[r][k].role = msgs[k].role
                      /\ parsed[r][k].tool_call_id = msgs[k].tool_call_id

\* C17's case: a tool message with no tool_call_id, an assistant message with
\* tool_calls and string content, and an assistant message with tool_calls and
\* array content all pass the validator as they came.
C17_Witness ==
    /\ Validated("r1")
    /\ Len(body["r1"].messages) = 3
    /\ body["r1"].messages[1] = Msg("tool", Str(5), Undefined, Undefined)
    /\ body["r1"].messages[2] = Msg("assistant", Str(5), Some(<<"a1">>), Undefined)
    /\ body["r1"].messages[3].content = Arr(<<ToolResult(Some("b2"))>>)
    /\ body["r1"].messages[3].tool_calls = Some(<<"b2">>)
    /\ cleaned["r1"] = <<1, 2, 3>>
    /\ parsed["r1"] = body["r1"].messages

\* C18: once sanitizePayload has returned, the messages of the payload passed
\* in are what they were before the call: as many, in the same order, each with
\* the content it had, the messages left out of the result included.
C18_InputUntouched ==
    \A r \in Reqs :
        Sanitized(r) =>
            /\ Len(parsed[r]) = Len(body[r].messages)
            /\ \A k \in 1..Len(parsed[r]) :
                  parsed[r][k].content = body[r].messages[k].content

\* C19: when the validator's output serializes to at most 480000 characters,
\* sanitizePayload returns exactly that output: the same messages at the same
\* positions, pinned messages where they stood; the result differs from the
\* validator's output only when the ceiling is exceeded.
C19_UnderCeilingNoOp ==
    \A r \in Reqs :
        Sanitized(r) =>
            /\ StringifyLength(Deref(cleaned[r], parsed[r])) <= 480000 =>
                  /\ msgRefs[r] = cleaned[r]
                  /\ payload[r].messages = Deref(cleaned[r], parsed[r])
            /\ msgRefs[r] # cleaned[r] =>
                  StringifyLength(Deref(cleaned[r], parsed[r])) > 480000

\* C19's case: the validator's output is exactly at the ceiling with a pinned
\* message standing behind an evictable one, and it is returned as it is.
C19_Witness ==
    /\ Sanitized("r1")
    /\ Len(cleaned["r1"]) >= 2
    /\ StringifyLength(Deref(cleaned["r1"], parsed["r1"])) = 480000
    /\ ~ PinnedRole(parsed["r1"][1])
    /\ PinnedRole(parsed["r1"][2])
    /\ msgRefs["r1"] = cleaned["r1"]
    /\ payload["r1"].messages = body["r1"].messages

\* C20: no message sanitizePayload returns has an empty content array; an
\* input message of any role whose array content is empty once its undeclared
\* tool_result parts are taken out, or was empty as it came, is in neither the
\* validator's output nor the result.
C20_NoEmptyContentArray ==
    \A r \in Reqs :
        Sanitized(r) =>
            /\ \A k \in 1..Len(payload[r].messages) :
                  payload[r].messages[k].content.isArray
                     => payload[r].messages[k].content.parts # <<>>
            /\ \A k \in 1..Len(body[r].messages) :
                  ( /\ body[r].messages[k].content.isArray
                    /\ PartsWithout(body[r].messages, k, Truthy) = <<>> )
                  => /\ k \notin Range(cleaned[r])
                     /\ k \notin Range(msgRefs[r])

\* C20's case: a developer message whose only part is filtered out and a user
\* message that came with an empty array are both left out, and the message
\* returned has the one part that stayed.
C20_Witness ==
    /\ Sanitized("r1")
    /\ Len(body["r1"].messages) = 3
    /\ body["r1"].messages[1].role = "developer"
    /\ body["r1"].messages[1].content = Arr(<<ToolResult(Some("b2"))>>)
    /\ body["r1"].messages[2].content = Arr(<<>>)
    /\ body["r1"].messages[3].content = Arr(<<TextPart, ToolResult(Some("a1"))>>)
    /\ msgRefs["r1"] = <<3>>
    /\ payload["r1"].messages[1].content.parts = <<TextPart>>

====
